---------------------------- MODULE Spec2Model ----------------------------
(***************************************************************************)
(* Materialization of the PushT trajectory dataset                         *)
(* (lerobot/common/datasets/pusht.py, class PushtExperienceReplay).        *)
(*                                                                         *)
(* A behaviour is a sequence of constructions of PushtExperienceReplay     *)
(* with one root and one dataset_id.  Each construction either opens the   *)
(* store found at <root>/<dataset_id> or runs _download_and_preproc, whose *)
(* steps are the values of pc.  An exception or a kill of the process ends *)
(* the construction in pc = "failed".                                      *)
(*                                                                         *)
(* Raw frames are numbered 1, 2, ... ; the image, the agent position and   *)
(* the action of raw frame g are all represented by the number g, so a     *)
(* record shows which raw frame each of its fields comes from.  A row of   *)
(* allocated and never written capacity is all zero.  Python indices are   *)
(* 0-based and TLA+ sequences 1-based: python x[g] is x[g + 1] here.       *)
(***************************************************************************)
EXTENDS Integers, Sequences, FiniteSets, TLC

\* ------------------------------------------------------------------ bounds
MaxEpisodes == 3
MaxFrames == 3
MaxConstructions == 3
MaxPhase == 1
MaxOps == 1
MaxTeleopEpisodes == 3
MaxSteps == 3

\* ------------------------------------------------------- program constants
\* SUCCESS_THRESHOLD = 0.95, as the rational 95/100
SUCCESS_THRESHOLD == [num |-> 95, den |-> 100]

\* ---------------------------------------------------------------- helpers
Min(a, b) == IF a < b THEN a ELSE b

\* python s[a:b] for 0 <= a, 0 <= b: out-of-range bounds are clamped
Slice(s, a, b) == SubSeq(s, a + 1, Min(b, Len(s)))

\* python s[:-1]
DropLast(s) == SubSeq(s, 1, Len(s) - 1)

\* python s[1:]
DropFirst(s) == SubSeq(s, 2, Len(s))

\* variant: the labels of the current frame, s[:-1]
NextLabelsCurrent(s) == SubSeq(s, 1, Len(s) - 1)

\* reward[1:], done[1:], success[1:]: the labels of the next frame
NextLabels(s) == DropFirst(s)

\* a raw modality array of n frames: frame g holds the value g
Iota(n) == [g \in 1..n |-> g]

\* ------------------------------------------------------ rational numbers
Quot(a, b) == [num |-> a, den |-> b]

RLeq(p, q) == p.num * q.den <= q.num * p.den

RDiv(p, q) == [num |-> p.num * q.den, den |-> p.den * q.num]

\* np.clip(x, lo, hi) = minimum(maximum(x, lo), hi)
Clip(x, lo, hi) == IF RLeq(x, lo) THEN lo ELSE IF RLeq(hi, x) THEN hi ELSE x

\* ------------------------------------------------------------ raw capture
RECURSIVE SumTo(_, _)
SumTo(lens, e) == IF e = 0 THEN 0 ELSE lens[e] + SumTo(lens, e - 1)

\* meta["episode_ends"]: the exclusive end index of every episode
Ends(lens) == [e \in 1..Len(lens) |-> SumTo(lens, e)]

\* get_episode_idxs(): the episode id recorded for every raw frame
EpisodeIdxs(ends) ==
    [g \in 1..ends[Len(ends)] |->
        (CHOOSE e \in 1..Len(ends) :
            /\ g <= ends[e]
            /\ \A d \in 1..(e - 1) : g > ends[d]) - 1]

\* the end-to-end scenario of the documentation: 2 episodes of 5 frames
ScenarioLens == <<5, 5>>

Layouts ==
    UNION {[1..n -> 1..MaxFrames] : n \in 1..MaxEpisodes} \cup {ScenarioLens}

\* modality lengths: all equal to the frame count T, or one array off by one
Shapes(T) ==
    {[img |-> T, state |-> T, action |-> T],
     [img |-> T - 1, state |-> T, action |-> T],
     [img |-> T, state |-> T - 1, action |-> T],
     [img |-> T, state |-> T, action |-> T - 1],
     [img |-> T, state |-> T, action |-> T + 1]}

\* recorded episode ids: the ids the boundaries imply, or one frame mislabelled
IdVariants(ends) ==
    {EpisodeIdxs(ends)} \cup
    {[EpisodeIdxs(ends) EXCEPT ![g] = @ + 1] : g \in 1..ends[Len(ends)]}

Captures ==
    UNION {
        LET ends == Ends(lens)
            T == ends[Len(ends)]
        IN  {[ends |-> ends, ids |-> EpisodeIdxs(ends), shape |-> s] :
                s \in Shapes(T)}
            \cup
            {[ends |-> ends, ids |-> ids,
              shape |-> [img |-> T, state |-> T, action |-> T]] :
                ids \in IdVariants(ends)}
        : lens \in Layouts}

\* ------------------------------------------------------------ frame labels
\* coverage values (in hundredths) taken by the block poses of a capture
CovCycle == <<0, 50, 95, 96>>

VARIABLES
    capture,        \* the raw capture: episode_ends, episode ids, array lengths
    phase,          \* which pose sequence the capture holds
    rawPresent,     \* zarr_path.is_dir()
    storeExists,    \* (root / dataset_id).is_dir()
    td_data,        \* rows of the memory-mapped store at root / dataset_id
    pc,             \* position of the running construction
    episode_id,     \* loop variable of _download_and_preproc
    idx0,           \* first raw frame of the current episode
    idxtd,          \* write cursor
    labels,         \* reward, success, done of the current episode
    episode,        \* the TensorDict of the current episode
    storage,        \* rows of the TensorStorage handed to the replay buffer
    failedAt,       \* the step at which the construction failed
    constructions,  \* constructions started so far
    builds,         \* constructions that entered _download_and_preproc
    written,        \* history: per episode written, its id and row indices
    sealed,         \* history: the rows at the time the build sealed the store
    writer,         \* the writer of the replay buffer of this construction
    ops,            \* add/extend calls made on this construction
    teleop          \* state of record_teleop_dataset_from_gym.py

vars == <<capture, phase, rawPresent, storeExists, td_data, pc, episode_id,
          idx0, idxtd, labels, episode, storage, failedAt, constructions,
          builds, written, sealed, writer, ops, teleop>>

input == <<capture, phase>>
facade == <<writer, ops>>
locals == <<episode_id, idx0, idxtd, labels, episode>>
history == <<written, sealed>>

\* coverage = intersection_area / goal_area of the block pose of raw frame g
Coverage(g) ==
    Quot(CovCycle[((g + phase) % Len(CovCycle)) + 1], 100)

\* reward[i] = np.clip(coverage / SUCCESS_THRESHOLD, 0, 1)
Reward(coverage) == Clip(RDiv(coverage, SUCCESS_THRESHOLD), Quot(0, 1), Quot(1, 1))

\* variant: success when coverage >= SUCCESS_THRESHOLD
SuccessAtLeast(coverage) == RLeq(SUCCESS_THRESHOLD, coverage)

\* success[i] = coverage > SUCCESS_THRESHOLD
Success(coverage) == ~RLeq(coverage, SUCCESS_THRESHOLD)

\* variant: done[0] = True
DoneVectorFirst(num_frames) == [i \in 1..num_frames |-> i = 1]

\* done = zeros(num_frames); done[-1] = True
DoneVector(num_frames) == [i \in 1..num_frames |-> i = num_frames]

\* --------------------------------------------------------- loop-body values
\* idx1 = dataset_dict.meta["episode_ends"][episode_id]
Idx1 == capture.ends[episode_id + 1]

\* num_frames = idx1 - idx0
NumFrames == Idx1 - idx0

\* num_episodes = dataset_dict.meta["episode_ends"].shape[0]
NumEpisodes == Len(capture.ends)

\* total_frames = dataset_dict["action"].shape[0]
TotalFrames == capture.shape.action

\* image = imgs[idx0:idx1]
Image == Slice(Iota(capture.shape.img), idx0, Idx1)

\* state = states[idx0:idx1]; agent_pos and the block pose are its columns
State == Slice(Iota(capture.shape.state), idx0, Idx1)

\* actions[idx0:idx1]
Actions == Slice(Iota(capture.shape.action), idx0, Idx1)

\* episode_ids[idx0:idx1]
EpIds == Slice(capture.ids, idx0, Idx1)

\* the assert on the modality lengths: len({...}) is the truth value tested
FramesAssert ==
    Cardinality({capture.shape.img, capture.shape.state, capture.shape.action}) # 0

\* variant: only the first frame of the range is compared
IdsMatchFirstOnly(ids, ep) == Len(ids) = 0 \/ ids[1] = ep

\* (episode_ids[idx0:idx1] == episode_id).all()
IdsMatch(ids, ep) == \A i \in 1..Len(ids) : ids[i] = ep

\* TensorDict(..., batch_size=num_frames - 1) requires every field to have
\* num_frames - 1 rows
BatchOk ==
    /\ NumFrames - 1 >= 0
    /\ \A n \in {Len(DropLast(Image)), Len(DropLast(State)),
                 Len(DropLast(Actions)), Len(DropLast(EpIds)),
                 Len(DropFirst(Image)), Len(DropFirst(State)),
                 Len(NextLabels(labels.reward)), Len(NextLabels(labels.done)),
                 Len(NextLabels(labels.success))} : n = NumFrames - 1

\* variant: frame ids counted from 1
FrameIdsFromOne(n) == [j \in 1..n |-> j]

\* torch.arange(0, num_frames - 1, 1)
FrameIds(n) == [j \in 1..n |-> j - 1]

\* episode = TensorDict({...}, batch_size=num_frames - 1)
EpisodeTensorDict ==
    [j \in 1..(NumFrames - 1) |->
        [obs_image    |-> DropLast(Image)[j],
         obs_state    |-> DropLast(State)[j],
         action       |-> DropLast(Actions)[j],
         episode      |-> DropLast(EpIds)[j],
         frame_id     |-> FrameIds(NumFrames - 1)[j],
         next_image   |-> DropFirst(Image)[j],
         next_state   |-> DropFirst(State)[j],
         next_reward  |-> NextLabels(labels.reward)[j],
         next_done    |-> NextLabels(labels.done)[j],
         next_success |-> NextLabels(labels.success)[j]]]

\* a row of memmap_like(): allocated, no content
ZeroRow ==
    [obs_image |-> 0, obs_state |-> 0, action |-> 0, episode |-> 0,
     frame_id |-> 0, next_image |-> 0, next_state |-> 0,
     next_reward |-> Quot(0, 1), next_done |-> FALSE, next_success |-> FALSE]

\* variant: the range stops one row early
WriteRangeShort(start, ep) == start..(start + Len(ep) - 2)

\* the row indices (0-based) of td_data[idxtd : idxtd + len(episode)]
WriteRange(start, ep) == start..(start + Len(ep) - 1)

\* variant: the cursor advances by the raw frame count
NextCursorGap(start, ep) == start + Len(ep) + 1

\* idxtd = idxtd + len(episode)
NextCursor(start, ep) == start + Len(ep)

\* variant: the existence test never succeeds
IsDownloadedNever == FALSE

\* self.data_path_root.is_dir()
IsDownloaded == storeExists

NoLabels == [reward |-> <<>>, success |-> <<>>, done |-> <<>>]

\* the writer argument of __init__: None, or a writer of the caller
WriterArgs == {"None", "RoundRobinWriter"}

\* variant: the default writer is one that writes
DefaultWriterRoundRobin == "RoundRobinWriter"

\* writer = ImmutableDatasetWriter()
DefaultWriter == "ImmutableDatasetWriter"

\* if writer is None: writer = ImmutableDatasetWriter()
ChooseWriter(arg) ==
    [arg |-> arg, obj |-> IF arg = "None" THEN DefaultWriter ELSE arg]

\* no replay buffer yet: super().__init__ has not run
NoWriter == [arg |-> "None", obj |-> "none"]

\* record_teleop_dataset_from_gym.py has not been started
TeleopIdle == [pc |-> "idle"]

BuildPcs ==
    {"download", "load", "check", "label", "assemble", "alloc", "write", "seal"}

\* ------------------------------------------------------------------ Init
Init ==
    /\ capture \in Captures
    /\ phase \in 0..MaxPhase
    /\ rawPresent = FALSE
    /\ storeExists = FALSE
    /\ td_data = <<>>
    /\ pc = "init"
    /\ episode_id = 0
    /\ idx0 = 0
    /\ idxtd = 0
    /\ labels = NoLabels
    /\ episode = <<>>
    /\ storage = <<>>
    /\ failedAt = "none"
    /\ constructions = 1
    /\ builds = 0
    /\ written = <<>>
    /\ sealed = <<>>
    /\ writer = NoWriter
    /\ ops = 0
    /\ teleop = TeleopIdle

\* --------------------------------------------------------------- __init__
\* the else branch: TensorStorage(TensorDict.load_memmap(root / dataset_id)),
\* then the choice of the writer and super().__init__(storage=..., writer=...)
OpenExisting ==
    /\ pc = "init"
    /\ IsDownloaded
    /\ storage' = td_data
    /\ \E arg \in WriterArgs : writer' = ChooseWriter(arg)
    /\ UNCHANGED ops
    /\ pc' = "ready"
    /\ UNCHANGED <<input, teleop, rawPresent, storeExists, td_data, locals, failedAt,
                   constructions, builds, history>>

\* variant: the store directory is created before the download
StartBuildAllocFirst ==
    /\ pc = "init"
    /\ ~IsDownloaded
    /\ pc' = "download"
    /\ builds' = builds + 1
    /\ storeExists' = TRUE
    /\ UNCHANGED <<input, teleop, facade, rawPresent, td_data, locals, storage,
                   failedAt, constructions, history>>

\* the then branch: enter _download_and_preproc
StartBuild ==
    /\ pc = "init"
    /\ ~IsDownloaded
    /\ pc' = "download"
    /\ builds' = builds + 1
    /\ UNCHANGED <<input, teleop, facade, rawPresent, storeExists, td_data, locals, storage,
                   failedAt, constructions, history>>

\* ------------------------------------------------- _download_and_preproc
\* the raw capture is there already, or download_and_extract_zip fetches it
Download ==
    /\ pc = "download"
    /\ rawPresent' = TRUE
    /\ pc' = "load"
    /\ UNCHANGED <<input, teleop, facade, storeExists, td_data, locals, storage, failedAt,
                   constructions, builds, history>>

\* download_and_extract_zip raises
DownloadFail ==
    /\ pc = "download"
    /\ ~rawPresent
    /\ pc' = "failed"
    /\ failedAt' = "download"
    /\ UNCHANGED <<input, teleop, facade, rawPresent, storeExists, td_data, locals, storage,
                   constructions, builds, history>>

\* ReplayBuffer.copy_from_path, the frame-count assert, idx0 = 0, idxtd = 0
Load ==
    /\ pc = "load"
    /\ IF FramesAssert
          THEN /\ pc' = "check"
               /\ idx0' = 0
               /\ idxtd' = 0
               /\ episode_id' = 0
               /\ UNCHANGED failedAt
          ELSE /\ pc' = "failed"
               /\ failedAt' = "assert"
               /\ UNCHANGED <<idx0, idxtd, episode_id>>
    /\ UNCHANGED <<input, teleop, facade, rawPresent, storeExists, td_data, labels, episode,
                   storage, constructions, builds, history>>

\* ReplayBuffer.copy_from_path raises: the raw capture cannot be read
LoadFail ==
    /\ pc = "load"
    /\ pc' = "failed"
    /\ failedAt' = "load"
    /\ UNCHANGED <<input, teleop, facade, rawPresent, storeExists, td_data, locals, storage,
                   constructions, builds, history>>

\* assert (episode_ids[idx0:idx1] == episode_id).all()
CheckEpisode ==
    /\ pc = "check"
    /\ IF IdsMatch(EpIds, episode_id)
          THEN pc' = "label" /\ UNCHANGED failedAt
          ELSE pc' = "failed" /\ failedAt' = "check"
    /\ UNCHANGED <<input, teleop, facade, rawPresent, storeExists, td_data, locals, storage,
                   constructions, builds, history>>

\* the per-frame labeling loop and done[-1] = True; block_pos[i] raises
\* IndexError when the state array ends before the episode does
LabelEpisode ==
    /\ pc = "label"
    /\ IF Len(State) < NumFrames
          THEN /\ pc' = "failed"
               /\ failedAt' = "label"
               /\ UNCHANGED labels
          ELSE /\ labels' =
                    [reward  |-> [i \in 1..NumFrames |-> Reward(Coverage(State[i]))],
                     success |-> [i \in 1..NumFrames |-> Success(Coverage(State[i]))],
                     done    |-> DoneVector(NumFrames)]
               /\ pc' = "assemble"
               /\ UNCHANGED failedAt
    /\ UNCHANGED <<input, teleop, facade, rawPresent, storeExists, td_data, episode_id, idx0,
                   idxtd, episode, storage, constructions, builds, history>>

\* episode = TensorDict(...); raises when a field has not num_frames - 1 rows
AssembleEpisode ==
    /\ pc = "assemble"
    /\ IF BatchOk
          THEN /\ episode' = EpisodeTensorDict
               /\ pc' = IF episode_id = 0 THEN "alloc" ELSE "write"
               /\ UNCHANGED failedAt
          ELSE /\ pc' = "failed"
               /\ failedAt' = "assemble"
               /\ UNCHANGED episode
    /\ UNCHANGED <<input, teleop, facade, rawPresent, storeExists, td_data, episode_id, idx0,
                   idxtd, labels, storage, constructions, builds, history>>

\* variant: the store is allocated without reading episode[0]
AllocateUnchecked ==
    /\ pc = "alloc"
    /\ td_data' = [r \in 1..TotalFrames |-> ZeroRow]
    /\ storeExists' = TRUE
    /\ written' = <<>>
    /\ pc' = "write"
    /\ UNCHANGED <<input, teleop, facade, rawPresent, locals, storage,
                   constructions, builds, sealed, failedAt>>

\* if episode_id == 0:
\*     td_data = episode[0].expand(total_frames).memmap_like(root / dataset_id)
\* episode[0] raises IndexError on an episode of no records
Allocate ==
    /\ pc = "alloc"
    /\ IF Len(episode) = 0
          THEN /\ pc' = "failed"
               /\ failedAt' = "alloc"
               /\ UNCHANGED <<storeExists, td_data, written>>
          ELSE /\ td_data' = [r \in 1..TotalFrames |-> ZeroRow]
               /\ storeExists' = TRUE
               /\ written' = <<>>
               /\ pc' = "write"
               /\ UNCHANGED failedAt
    /\ UNCHANGED <<input, teleop, facade, rawPresent, locals, storage, constructions, builds,
                   sealed>>

\* td_data[idxtd : idxtd + len(episode)] = episode; idx0 = idx1;
\* idxtd = idxtd + len(episode); the slice assignment raises when the range
\* does not lie inside td_data
WriteEpisode ==
    /\ pc = "write"
    /\ IF \A r \in WriteRange(idxtd, episode) : r + 1 \in 1..Len(td_data)
          THEN /\ td_data' =
                    [r \in 1..Len(td_data) |->
                        IF r - 1 \in WriteRange(idxtd, episode)
                           THEN episode[r - idxtd]
                           ELSE td_data[r]]
               /\ written' = Append(written,
                    [ep |-> episode_id, rows |-> WriteRange(idxtd, episode)])
               /\ idx0' = Idx1
               /\ idxtd' = NextCursor(idxtd, episode)
               /\ episode_id' = episode_id + 1
               /\ pc' = IF episode_id + 1 < NumEpisodes THEN "check" ELSE "seal"
               /\ UNCHANGED failedAt
          ELSE /\ pc' = "failed"
               /\ failedAt' = "write"
               /\ UNCHANGED <<td_data, written, idx0, idxtd, episode_id>>
    /\ UNCHANGED <<input, teleop, facade, rawPresent, storeExists, labels, episode, storage,
                   constructions, builds, sealed>>

\* return TensorStorage(td_data.lock_()), then the choice of the writer and
\* super().__init__(storage=..., writer=...); lock_() forbids adding and
\* removing entries of td_data, the rows stay writable in place
Seal ==
    /\ pc = "seal"
    /\ storage' = td_data
    /\ sealed' = td_data
    /\ \E arg \in WriterArgs : writer' = ChooseWriter(arg)
    /\ UNCHANGED ops
    /\ pc' = "ready"
    /\ UNCHANGED <<input, teleop, rawPresent, storeExists, td_data, locals, failedAt,
                   constructions, builds, written>>

\* the process is killed while _download_and_preproc runs
Interrupt ==
    /\ pc \in BuildPcs
    /\ pc' = "failed"
    /\ failedAt' = "interrupt"
    /\ UNCHANGED <<input, teleop, facade, rawPresent, storeExists, td_data, locals, storage,
                   constructions, builds, history>>

\* a later construction with the same root and dataset_id
NextConstruction ==
    /\ pc \in {"ready", "failed"}
    /\ constructions < MaxConstructions
    /\ constructions' = constructions + 1
    /\ pc' = "init"
    /\ episode_id' = 0
    /\ idx0' = 0
    /\ idxtd' = 0
    /\ labels' = NoLabels
    /\ episode' = <<>>
    /\ storage' = <<>>
    /\ failedAt' = "none"
    /\ writer' = NoWriter
    /\ ops' = 0
    /\ UNCHANGED <<input, teleop, rawPresent, storeExists, td_data, builds, history>>

Next ==
    \/ OpenExisting
    \/ StartBuild
    \/ Download
    \/ DownloadFail
    \/ Load
    \/ LoadFail
    \/ CheckEpisode
    \/ LabelEpisode
    \/ AssembleEpisode
    \/ Allocate
    \/ WriteEpisode
    \/ Seal
    \/ Interrupt
    \/ NextConstruction

Spec == Init /\ [][Next]_vars

\* ------------------------------------------------ operations of the facade
\* a record that a caller hands to add/extend
CallerRow == [ZeroRow EXCEPT !.obs_image = -1, !.episode = -1, !.frame_id = -1]

\* replay_buffer.extend(data) on the constructed dataset: the writer given to
\* super().__init__ decides; ImmutableDatasetWriter raises, a RoundRobinWriter
\* sets the row at its cursor in the storage, in place
Extend ==
    /\ pc = "ready"
    /\ ops < MaxOps
    /\ ops' = ops + 1
    /\ IF writer.obj = "ImmutableDatasetWriter"
          THEN UNCHANGED <<td_data, storage>>
          ELSE /\ td_data' = [td_data EXCEPT ![(ops % Len(td_data)) + 1] = CallerRow]
               /\ storage' = td_data'
    /\ UNCHANGED <<input, teleop, writer, rawPresent, storeExists, locals, pc,
                   failedAt, constructions, builds, history>>

\* variant: the largest episode id of the storage, plus one
num_episodes_by_max ==
    1 + CHOOSE m \in {storage[r].episode : r \in 1..Len(storage)} :
            \A r \in 1..Len(storage) : storage[r].episode <= m

\* num_episodes: len(self._storage._storage["episode"].unique())
num_episodes == Cardinality({storage[r].episode : r \in 1..Len(storage)})

\* num_samples: len(self)
num_samples == Len(storage)

NextFacade == Next \/ Extend

\* constructions, and calls on the constructed datasets
SpecFacade == Init /\ [][NextFacade]_vars

\* ------------------------------------ record_teleop_dataset_from_gym.py
\* the variables of the dataset build, which the recording script leaves alone
pusht == <<capture, phase, rawPresent, storeExists, td_data, pc, episode_id,
           idx0, idxtd, labels, episode, storage, failedAt, constructions,
           builds, written, sealed, writer, ops>>

\* the script after process_args() and the initialisations before the loop
TeleopStart(n, steps, keep) ==
    [pc |-> "loop",
     num_episodes |-> n, num_steps |-> steps, keep_last |-> keep,
     ep_idx |-> 0, id_from |-> 0, id_to |-> 0,
     from |-> <<>>, to |-> <<>>,
     obs_replay |-> <<>>, ep_dicts |-> <<>>, data_dict |-> <<>>]

\* the rows of an ep_dict: episode_index, frame_index, next.done
EpDict(ep_idx, num_steps) ==
    [i \in 1..num_steps |->
        [episode_index |-> ep_idx, frame_index |-> i - 1,
         next_done |-> (i = num_steps)]]

\* concatenate_episodes(ep_dicts): the rows of the episodes, in order
RECURSIVE ConcatRows(_)
ConcatRows(eps) ==
    IF eps = <<>> THEN <<>>
    ELSE ConcatRows(SubSeq(eps, 1, Len(eps) - 1)) \o eps[Len(eps)]

\* id_from + num_steps if args.keep_last else id_from + num_steps - 1
IdTo(id_from, num_steps, keep_last) ==
    IF keep_last THEN id_from + num_steps ELSE id_from + num_steps - 1

InitTeleop ==
    /\ capture = [ends |-> <<2>>, ids |-> <<0, 0>>,
                  shape |-> [img |-> 2, state |-> 2, action |-> 2]]
    /\ phase = 0
    /\ rawPresent = FALSE
    /\ storeExists = FALSE
    /\ td_data = <<>>
    /\ pc = "init"
    /\ episode_id = 0
    /\ idx0 = 0
    /\ idxtd = 0
    /\ labels = NoLabels
    /\ episode = <<>>
    /\ storage = <<>>
    /\ failedAt = "none"
    /\ constructions = 1
    /\ builds = 0
    /\ written = <<>>
    /\ sealed = <<>>
    /\ writer = NoWriter
    /\ ops = 0
    /\ \E n \in 1..MaxTeleopEpisodes, steps \in 1..MaxSteps, keep \in BOOLEAN :
          teleop = TeleopStart(n, steps, keep)

\* while ep_idx < num_episodes: env.reset(), init buffers
TeleopReset ==
    /\ teleop.pc = "loop"
    /\ teleop.ep_idx < teleop.num_episodes
    /\ teleop' = [teleop EXCEPT !.pc = "step", !.obs_replay = <<>>]
    /\ UNCHANGED pusht

\* one iteration of for i in range(num_steps): env.step and the appends
TeleopStep ==
    /\ teleop.pc = "step"
    /\ Len(teleop.obs_replay) < teleop.num_steps
    /\ teleop' = [teleop EXCEPT
                    !.obs_replay = Append(@, Len(teleop.obs_replay))]
    /\ UNCHANGED pusht

\* if not drop_episode: build ep_dict, append it, extend episode_data_index,
\* id_to, id_from = id_to, ep_idx += 1
TeleopSave ==
    /\ teleop.pc = "step"
    /\ Len(teleop.obs_replay) = teleop.num_steps
    /\ LET to == IdTo(teleop.id_from, teleop.num_steps, teleop.keep_last)
       IN  teleop' = [teleop EXCEPT
                !.pc = "loop",
                !.ep_dicts = Append(@, EpDict(teleop.ep_idx, teleop.num_steps)),
                !.from = Append(@, teleop.id_from),
                !.to = Append(@, to),
                !.id_to = to,
                !.id_from = to,
                !.ep_idx = @ + 1]
    /\ UNCHANGED pusht

\* the loop ends: env.close(), data_dict = concatenate_episodes(ep_dicts)
TeleopConcat ==
    /\ teleop.pc = "loop"
    /\ teleop.ep_idx >= teleop.num_episodes
    /\ teleop' = [teleop EXCEPT
                    !.pc = "done", !.data_dict = ConcatRows(teleop.ep_dicts)]
    /\ UNCHANGED pusht

NextTeleop ==
    \/ TeleopReset
    \/ TeleopStep
    \/ TeleopSave
    \/ TeleopConcat

SpecTeleop == InitTeleop /\ [][NextTeleop]_vars

TypeOK ==
    /\ pc \in BuildPcs \cup {"init", "ready", "failed"}
    /\ idxtd \in Nat
    /\ constructions \in 1..MaxConstructions

\* ------------------------------------------------------------- properties
\* a build has run to its end and sealed the store
Built == sealed # <<>>

Episodes == 0..(NumEpisodes - 1)

\* first raw frame (0-based) and raw frame count F of episode e
StartOf(e) == IF e = 0 THEN 0 ELSE capture.ends[e]
FramesOf(e) == capture.ends[e + 1] - StartOf(e)

\* the row indices (0-based) written for episode e
RowsOf(e) ==
    UNION {written[k].rows : k \in {j \in 1..Len(written) : written[j].ep = e}}

\* the rows of the store that hold a record of episode e
RecordsOf(e) ==
    {r \in 1..Len(td_data) :
        td_data[r].obs_image # 0 /\ td_data[r].episode = e}

RECURSIVE RowsBefore(_)
RowsBefore(k) ==
    IF k <= 1 THEN 0
    ELSE Cardinality(written[k - 1].rows) + RowsBefore(k - 1)

RECURSIVE SumRecords(_)
SumRecords(e) ==
    IF e < 0 THEN 0 ELSE (FramesOf(e) - 1) + SumRecords(e - 1)

\* C1: after a successful build every episode of the raw capture has exactly
\* F - 1 transition records written to the store, F its raw frame count.
C1_RecordsPerEpisode ==
    Built =>
        \A e \in Episodes :
            /\ Cardinality({k \in 1..Len(written) : written[k].ep = e}) = 1
            /\ Cardinality(RowsOf(e)) = FramesOf(e) - 1
            /\ Cardinality(RecordsOf(e)) = FramesOf(e) - 1

C1_Witness ==
    /\ Built
    /\ pc = "ready"
    /\ NumEpisodes = 3
    /\ \E e \in Episodes : FramesOf(e) = 1
    /\ \E e \in Episodes : FramesOf(e) = 3

\* next.done is true on a written record iff it is the last one written for
\* its episode
DoneIffLast ==
    \A k \in 1..Len(written) :
        \A r \in written[k].rows :
            td_data[r + 1].next_done <=> (\A q \in written[k].rows : q <= r)

DoneRows(e) == {r \in RowsOf(e) : td_data[r + 1].next_done}

\* C2 (as amended): next.done is true on a written record iff the record is
\* the last one written for its episode; after a successful build every
\* episode of at least two raw frames has exactly one written record with
\* next.done true, and an episode of one raw frame has none.
C2_DoneOnLastRecord ==
    /\ DoneIffLast
    /\ Built =>
          \A e \in Episodes :
              Cardinality(DoneRows(e)) = IF FramesOf(e) >= 2 THEN 1 ELSE 0

C2_Witness ==
    /\ Built
    /\ pc = "ready"
    /\ \E e \in Episodes : FramesOf(e) = 1 /\ DoneRows(e) = {}
    /\ \E e \in Episodes : FramesOf(e) = 3 /\ Cardinality(DoneRows(e)) = 1

\* C2 (as claimed): ... every episode of the raw capture has exactly one
\* written record with next.done true.
C2_Original ==
    /\ DoneIffLast
    /\ Built => \A e \in Episodes : Cardinality(DoneRows(e)) = 1

\* C3: episodes are written in ascending id order, the k-th into the index
\* range that starts where the rows of the earlier episodes end (the first
\* at 0), so the ranges have no gap and no row is written by two episodes.
C3_ContiguousRanges ==
    /\ \A k \in 1..Len(written) :
          /\ written[k].ep = k - 1
          /\ written[k].rows =
                RowsBefore(k)..(RowsBefore(k) + Cardinality(written[k].rows) - 1)
          /\ \A r \in written[k].rows :
                td_data[r + 1].obs_image # 0 /\ td_data[r + 1].episode = k - 1
    /\ \A j, k \in 1..Len(written) :
          j # k => written[j].rows \cap written[k].rows = {}
    /\ \A k \in 1..(Len(written) - 1) :
          (written[k].rows # {} /\ written[k + 1].rows # {}) =>
              \E last \in written[k].rows, first \in written[k + 1].rows :
                  /\ \A q \in written[k].rows : q <= last
                  /\ \A q \in written[k + 1].rows : first <= q
                  /\ last + 1 = first

C3_Witness ==
    /\ Len(written) = 3
    /\ \A k \in 1..3 : Cardinality(written[k].rows) >= 2
    /\ pc = "ready"

\* C4 (as claimed): the handle returned by the build has as many rows as
\* were written, the sum over the episodes of F - 1; for 2 episodes of 5
\* frames it has 8 rows, row 3 done with episode 0, row 7 done with episode 1.
C4_HandleIsWrittenPrefix ==
    (pc = "ready" /\ Built) =>
        /\ Len(storage) = SumRecords(NumEpisodes - 1)
        /\ capture.ends = <<5, 10>> =>
              /\ Len(storage) = 8
              /\ storage[4].next_done /\ storage[4].episode = 0
              /\ storage[8].next_done /\ storage[8].episode = 1

\* a construction that finds the store opens it and does no other work
OpenDoesNoWork ==
    (pc = "init" /\ storeExists) =>
        /\ pc' = "ready"
        /\ storage' = td_data
        /\ UNCHANGED <<rawPresent, storeExists, td_data, labels, episode,
                       builds, written, sealed>>

\* a construction that finds no store enters the build
MissingStoreBuilds ==
    (pc = "init" /\ ~storeExists) => (pc' = "download" /\ builds' = builds + 1)

\* once a build has completed, no build starts and no row changes
BuiltIsFinal ==
    Built => UNCHANGED <<builds, td_data, sealed, storeExists>>

\* C5 (as amended): a construction that finds a store at root/dataset_id
\* opens it and performs no download, no labeling and no write; one that
\* finds none runs the build.  Over any sequence of constructions the build
\* runs to completion at most once (a build that failed before it allocated
\* the store is run again by the next construction), after a completed build
\* no build starts, and every construction after it sees the same row data.
C5_OpenIsIdempotent ==
    /\ []((pc = "ready" /\ Built) => storage = sealed)
    /\ [][OpenDoesNoWork /\ MissingStoreBuilds /\ BuiltIsFinal]_vars

C5_Witness ==
    /\ pc = "ready"
    /\ Built
    /\ episode = <<>>
    /\ storage = sealed
    /\ builds = 2
    /\ constructions = 3

\* C5 (as claimed): over any sequence of constructions the build runs at
\* most once, and every construction after a completed build sees the same
\* row data.
C5_Original ==
    /\ builds <= 1
    /\ (pc = "ready" /\ Built) => storage = sealed

\* C6 (as claimed): a build that fails or is interrupted leaves no store at
\* root/dataset_id, so a store that a construction opens is one that a build
\* completed.
C6_AllOrNothing ==
    /\ pc = "failed" => ~storeExists
    /\ pc = "ready" => Built

ShapeMismatch ==
    Cardinality({capture.shape.img, capture.shape.state, capture.shape.action}) # 1

\* C7 (as claimed): when the modality arrays differ in frame count the build
\* aborts before an episode is processed and before a store is allocated.
C7_MismatchAborts ==
    ShapeMismatch =>
        /\ pc \in {"init", "download", "load", "failed"}
        /\ ~storeExists

\* some frame of episode e carries a recorded id other than e
BadEpisode(e) ==
    \E g \in (StartOf(e) + 1)..capture.ends[e + 1] : capture.ids[g] # e

\* C8: when a frame of episode e carries another episode id, the build fails
\* at the check of episode e: it never gets past that check, never completes,
\* and no record of episode e or of a later episode is written.
C8_IdMismatchFailsBuild ==
    /\ [](\A e \in Episodes :
            BadEpisode(e) =>
                /\ episode_id <= e
                /\ episode_id = e =>
                      pc \in {"init", "download", "load", "check", "failed"}
                /\ ~Built
                /\ \A k \in 1..Len(written) : written[k].ep < e
                /\ \A r \in 1..Len(td_data) :
                      /\ td_data[r].obs_image <= StartOf(e)
                      /\ td_data[r].next_image <= StartOf(e))
    /\ [][(pc = "check" /\ BadEpisode(episode_id)) =>
            (pc' = "failed" /\ td_data' = td_data)]_vars

C8_Witness ==
    /\ pc = "failed"
    /\ failedAt = "check"
    /\ episode_id = 1
    /\ BadEpisode(1)
    /\ capture.ids[StartOf(1) + 1] = 1
    /\ Len(written) = 1
    /\ NumEpisodes = 3

RatEq(p, q) == RLeq(p, q) /\ RLeq(q, p)

\* the label (reward, success) agrees with the coverage c
LabelOk(c, reward, success) ==
    /\ RLeq(Quot(0, 1), reward) /\ RLeq(reward, Quot(1, 1))
    /\ success <=> (c.num * 100 > 95 * c.den)
    /\ IF c.num * 100 >= 95 * c.den
          THEN RatEq(reward, Quot(1, 1))
          ELSE reward.num * 95 * c.den = c.num * 100 * reward.den
    /\ success => RatEq(reward, Quot(1, 1))
    /\ (c.num * 100 = 95 * c.den) => (RatEq(reward, Quot(1, 1)) /\ ~success)

\* C10: for every labeled frame and every written record, the reward is
\* clip(coverage / 0.95, 0, 1), lies in [0, 1], and success holds exactly
\* when coverage > 0.95, for the coverage of the labeled frame's pose; so
\* success implies reward 1, and coverage 0.95 gives reward 1, no success.
C10_RewardAndSuccess ==
    /\ pc \in {"assemble", "alloc", "write"} =>
          \A i \in 1..Len(labels.reward) :
              LabelOk(Coverage(idx0 + i), labels.reward[i], labels.success[i])
    /\ \A k \in 1..Len(written) :
          \A r \in written[k].rows :
              LabelOk(Coverage(td_data[r + 1].next_image),
                      td_data[r + 1].next_reward, td_data[r + 1].next_success)

C10_Witness ==
    /\ pc = "ready"
    /\ \E r \in RowsOf(0) :
          /\ Coverage(td_data[r + 1].next_image) = Quot(95, 100)
          /\ td_data[r + 1].next_reward = Quot(1, 1)
          /\ ~td_data[r + 1].next_success
    /\ \E r \in RowsOf(0) : td_data[r + 1].next_success
    /\ \E r \in RowsOf(1) :
          /\ Coverage(td_data[r + 1].next_image) = Quot(50, 100)
          /\ td_data[r + 1].next_reward = Quot(5000, 9500)

\* C11: an episode of exactly 1 raw frame yields no transition record and
\* leaves the write cursor and the store as they are; when it is the first
\* episode the build fails at the allocation step: no store is allocated,
\* nothing is written and the build never completes.
C11_SingleFrameEpisode ==
    /\ [](FramesOf(0) = 1 =>
            /\ ~storeExists
            /\ td_data = <<>>
            /\ written = <<>>
            /\ pc \notin {"write", "seal", "ready"})
    /\ [](\A k \in 1..Len(written) :
            FramesOf(written[k].ep) = 1 => written[k].rows = {})
    /\ [][(pc = "alloc" /\ NumFrames = 1) =>
            (pc' = "failed" /\ ~storeExists')]_vars
    /\ [][(pc = "assemble" /\ NumFrames = 1 /\ pc' # "failed") =>
            episode' = <<>>]_vars
    /\ [][(pc = "write" /\ NumFrames = 1 /\ pc' # "failed") =>
            (idxtd' = idxtd /\ td_data' = td_data)]_vars

C11_Witness ==
    /\ pc = "failed"
    /\ failedAt = "alloc"
    /\ FramesOf(0) = 1
    /\ NumEpisodes = 3
    /\ episode = <<>>
    /\ ~storeExists

RawTotal == capture.ends[NumEpisodes]
RowsWritten == RowsBefore(Len(written) + 1)

\* the capacity and cursor relations of the store, for a raw frame count n
CapacityAndCursor(n) ==
    /\ storeExists => Len(td_data) = n
    /\ Built => RowsWritten = n - NumEpisodes
    /\ \A k \in 1..Len(written) :
          \A r \in written[k].rows : r + 1 \in 1..Len(td_data)
    /\ Built =>
          \A r \in RowsWritten..(Len(td_data) - 1) :
              /\ td_data[r + 1] = ZeroRow
              /\ \A k \in 1..Len(written) : r \notin written[k].rows

\* C13 (as claimed): the capacity allocated equals the total raw frame
\* count; after a successful build the rows written are the raw frames minus
\* the number of episodes; every write range lies inside the capacity; the
\* rows from the final cursor up to the capacity are never written.
C13_CapacityAndCursor == CapacityAndCursor(RawTotal)

\* the same with the frame count read from the action array, as the code does
C13_ByActionLength == CapacityAndCursor(TotalFrames)

\* the same for captures whose modality arrays agree
C13_WhenShapesAgree == ~ShapeMismatch => CapacityAndCursor(RawTotal)

\* the episode ids carried by the transition records written to the store
RecordIds ==
    {td_data[r + 1].episode :
        r \in UNION {written[k].rows : k \in 1..Len(written)}}

\* C14 (as amended): after a successful build num_episodes equals the number
\* of distinct episode ids among the written transition records, which is
\* the number of raw episodes of at least two frames (an episode of one
\* frame has no record); the unwritten rows do not change the count.
C14_NumEpisodes ==
    (pc = "ready" /\ Built) =>
        /\ num_episodes = Cardinality(RecordIds)
        /\ num_episodes = Cardinality({e \in Episodes : FramesOf(e) >= 2})

C14_Witness ==
    /\ pc = "ready"
    /\ Built
    /\ NumEpisodes = 3
    /\ FramesOf(1) = 1
    /\ num_episodes = 2
    /\ num_samples > RowsWritten

\* C14 (as claimed): ... which after a successful build equals the number of
\* episodes in the raw capture.
C14_Original ==
    (pc = "ready" /\ Built) =>
        /\ num_episodes = Cardinality(RecordIds)
        /\ num_episodes = NumEpisodes

\* position (from 0) of row r among the rows written for the k-th episode
PosIn(k, r) == Cardinality({q \in written[k].rows : q < r})

\* C15: the j-th record written for an episode (j = 0 .. F-2) has frame_id j
\* and the episode's id, so frame ids increase strictly from 0.
C15_FrameIds ==
    \A k \in 1..Len(written) :
        /\ \A r \in written[k].rows :
              /\ td_data[r + 1].frame_id = PosIn(k, r)
              /\ td_data[r + 1].episode = written[k].ep
        /\ \A q, r \in written[k].rows :
              q < r => td_data[q + 1].frame_id < td_data[r + 1].frame_id
        /\ {td_data[r + 1].frame_id : r \in written[k].rows} =
              0..(FramesOf(written[k].ep) - 2)

C15_Witness ==
    /\ pc = "ready"
    /\ Len(written) = 2
    /\ written[2].rows = 4..7
    /\ td_data[5].frame_id = 0
    /\ td_data[8].frame_id = 3
    /\ td_data[8].episode = 1

\* raw frame (numbered from 1) that is "current" in row r of the k-th episode
CurrentFrame(k, r) == StartOf(written[k].ep) + PosIn(k, r) + 1

\* C16: the j-th record of an episode has observation and action of raw
\* frame j and next observation, reward, success and done of raw frame j+1
\* of the same episode; the last raw frame of an episode is "next" of its
\* last record only and "current" of none, and the first raw frame of an
\* episode is "next" of no record, so its label is stored nowhere.
C16_CurrentNextPairing ==
    /\ \A k \in 1..Len(written) :
          \A r \in written[k].rows :
              LET row == td_data[r + 1]
                  cur == CurrentFrame(k, r)
                  last == capture.ends[written[k].ep + 1]
              IN  /\ row.obs_image = cur
                  /\ row.obs_state = cur
                  /\ row.action = cur
                  /\ row.next_image = cur + 1
                  /\ row.next_state = cur + 1
                  /\ cur + 1 <= last
                  /\ LabelOk(Coverage(cur + 1), row.next_reward, row.next_success)
                  /\ row.next_done <=> (cur + 1 = last)
    /\ \A e \in Episodes :
          \A r \in 1..Len(td_data) :
              /\ td_data[r].obs_image # capture.ends[e + 1]
              /\ td_data[r].next_image # StartOf(e) + 1
    /\ Built =>
          \A e \in Episodes :
              FramesOf(e) >= 2 =>
                  Cardinality({r \in 1..Len(td_data) :
                      td_data[r].next_image = capture.ends[e + 1]}) = 1

C16_Witness ==
    /\ pc = "ready"
    /\ Len(written) = 3
    /\ \A k \in 1..3 : Cardinality(written[k].rows) = 2
    /\ td_data[4].obs_image = 5
    /\ td_data[4].next_image = 6
    /\ td_data[4].next_done
    /\ td_data[4].next_reward # td_data[3].next_reward

\* C17 (as claimed): after any number of recorded episodes the ranges of
\* episode_data_index are contiguous (from[0] = 0, from[i+1] = to[i]), have
\* length num_steps with --keep-last and num_steps - 1 without, and every row
\* index in [from[i], to[i]) of the concatenated episodes is a row whose
\* episode_index is i.
C17_EpisodeDataIndex ==
    teleop.pc # "idle" =>
        LET rows == ConcatRows(teleop.ep_dicts)
            n == Len(teleop.from)
        IN  /\ Len(teleop.to) = n
            /\ n = Len(teleop.ep_dicts)
            /\ n >= 1 => teleop.from[1] = 0
            /\ \A i \in 1..(n - 1) : teleop.from[i + 1] = teleop.to[i]
            /\ \A i \in 1..n :
                  teleop.to[i] - teleop.from[i] =
                      IF teleop.keep_last THEN teleop.num_steps
                      ELSE teleop.num_steps - 1
            /\ Len(rows) = n * teleop.num_steps
            /\ \A i \in 1..n :
                  \A r \in teleop.from[i]..(teleop.to[i] - 1) :
                      rows[r + 1].episode_index = i - 1
            /\ teleop.pc = "done" => teleop.data_dict = rows

\* the same for recordings made with --keep-last
C17_WithKeepLast == teleop.keep_last => C17_EpisodeDataIndex

=============================================================================
